---- MODULE Spec2Model ----
(***************************************************************************)
(* speed-cloudflare-cli: the statistics module (stats.js) and the command  *)
(* line program that measures latency, download and upload speed.          *)
(*                                                                         *)
(* JavaScript numbers are modelled as exact rationals n/d together with    *)
(* the special values NaN, +Infinity, -Infinity and undefined, so that the *)
(* arithmetic of the statistics is the arithmetic of the code on every     *)
(* input whose results a double represents exactly.                        *)
(***************************************************************************)
EXTENDS Integers, Sequences, FiniteSets, TLC

VARIABLES
    values,     \* stats harness: the caller's array, passed by reference
    orig,       \* stats harness: the array as the caller built it
    ret,        \* stats harness: what the last call returned
    called,     \* stats harness: the last call, [fn, q]
    now,        \* performance.now(), counted from the issue of the request in flight
    reqs,       \* the measurement requests in flight (calls of request() not settled)
    drv,        \* the three measurement drivers: loop index, series, state
    hist,       \* history: the measurement requests settled so far, in the order
                \* they were issued: driver, index, outcome, sample, header seen
    out,        \* the lines written with console.log, in order
    meta,       \* the two metadata requests of get()
    child,      \* the three promises handed to Promise.all
    main,       \* where speedTest() is suspended, or how it settled
    evaluated,  \* the elements of measureLatency's result evaluated so far
    proc,       \* the node process: running, crashed or exited
    unhandled   \* what node does on an unhandled rejection: throw or warn

statsVars == <<values, orig, ret, called>>
progVars == <<now, reqs, drv, hist, out, meta, child, main, evaluated, proc, unhandled>>
vars == <<values, orig, ret, called, now, reqs, drv, hist, out, meta, child, main,
          evaluated, proc, unhandled>>

----------------------------------------------------------------------------
(* Bounds of the model *)

MaxLen == 3      \* longest series the statistics harness draws
MaxVal == 3      \* samples of the statistics harness are 0..MaxVal
QDen   == 4      \* the harness calls quartile with q = k/QDen, k = 0..QDen
MaxStep == 1     \* at most MaxStep ms pass between two events of a request
MaxServer == 1   \* server-timing durations are 0..MaxServer ms
MaxIterations == 3   \* iteration counts given to measureDownload / measureUpload
LatencyCount == 3    \* requests of the latency loop when measureLatency is called alone
RunLatencyCount == 2 \* requests of the latency loop within speedTest

----------------------------------------------------------------------------
(* JavaScript numbers *)

IAbs(x) == IF x < 0 THEN -x ELSE x

RECURSIVE Gcd(_, _)
Gcd(a, b) == IF b = 0 THEN a ELSE Gcd(b, a % b)

\* the rational n/d, d # 0, in lowest terms with a positive denominator
Num(n, d) ==
    LET s == IF d < 0 THEN -1 ELSE 1
        g == Gcd(IAbs(n), IAbs(d))
    IN  [k |-> "num", n |-> (s * n) \div g, d |-> (s * d) \div g]

NumInt(i) == [k |-> "num", n |-> i, d |-> 1]
NaN == [k |-> "nan", n |-> 0, d |-> 1]
Inf(s) == [k |-> "inf", n |-> s, d |-> 1]
Undefined == [k |-> "undef", n |-> 0, d |-> 1]

IsNum(a) == a.k = "num"
\* ToNumber(undefined) is NaN
IsNaN(a) == a.k \in {"nan", "undef"}
Sign(a) == IF a.n < 0 THEN -1 ELSE IF a.n > 0 THEN 1 ELSE 0

JsAdd(a, b) ==
    IF IsNaN(a) \/ IsNaN(b) THEN NaN
    ELSE IF a.k = "inf" /\ b.k = "inf" THEN (IF a.n = b.n THEN a ELSE NaN)
    ELSE IF a.k = "inf" THEN a
    ELSE IF b.k = "inf" THEN b
    ELSE Num(a.n * b.d + b.n * a.d, a.d * b.d)

JsNeg(a) ==
    IF IsNaN(a) THEN NaN
    ELSE IF a.k = "inf" THEN Inf(-a.n)
    ELSE [k |-> "num", n |-> -a.n, d |-> a.d]

JsSub(a, b) == JsAdd(a, JsNeg(b))

JsMul(a, b) ==
    IF IsNaN(a) \/ IsNaN(b) THEN NaN
    ELSE IF a.k = "inf" \/ b.k = "inf"
         THEN (IF Sign(a) * Sign(b) = 0 THEN NaN ELSE Inf(Sign(a) * Sign(b)))
    ELSE Num(a.n * b.n, a.d * b.d)

\* zeros of the program are +0 (differences and products of timestamps)
JsDiv(a, b) ==
    IF IsNaN(a) \/ IsNaN(b) THEN NaN
    ELSE IF a.k = "inf"
         THEN (IF b.k = "inf" THEN NaN
               ELSE Inf(IF Sign(b) < 0 THEN -a.n ELSE a.n))
    ELSE IF b.k = "inf" THEN NumInt(0)
    ELSE IF b.n = 0 THEN (IF a.n = 0 THEN NaN ELSE Inf(Sign(a)))
    ELSE Num(a.n * b.d, a.d * b.n)

MathAbs(a) ==
    IF IsNaN(a) THEN NaN
    ELSE IF a.k = "inf" THEN Inf(1)
    ELSE [k |-> "num", n |-> IAbs(a.n), d |-> a.d]

\* Math.floor of a finite number, as an integer of the model
FloorInt(a) == a.n \div a.d

\* a < b; every comparison with NaN is false
JsLess(a, b) ==
    IF IsNaN(a) \/ IsNaN(b) THEN FALSE
    ELSE IF a.k = "inf" THEN (a.n < 0 /\ ~(b.k = "inf" /\ b.n < 0))
    ELSE IF b.k = "inf" THEN b.n > 0
    ELSE a.n * b.d < b.n * a.d

\* values[i] of a JavaScript array, i a 0-based integer: undefined off the ends
At(arr, i) == IF i >= 0 /\ i < Len(arr) THEN arr[i + 1] ELSE Undefined

HasNaN(arr) == \E i \in 1..Len(arr) : IsNaN(arr[i])

\* an array of integers as an array of numbers
IntsToNums(xs) == [i \in 1..Len(xs) |-> NumInt(xs[i])]

----------------------------------------------------------------------------
(* Array.prototype.sort((a, b) => a - b) *)

\* the comparator's verdict "a goes after b": a - b > 0
After(a, b) == JsLess(NumInt(0), JsSub(a, b))

\* the place of arr[p] in the sorted array: behind every element the comparator
\* puts before it, and behind the equal ones that stood before it (the sort is
\* stable)
Rank(arr, p) ==
    Cardinality({j \in 1..Len(arr) : After(arr[p], arr[j])})
    + Cardinality({j \in 1..(p - 1) : ~After(arr[j], arr[p]) /\ ~After(arr[p], arr[j])})
    + 1

\* the array sorted in ascending order, for elements the comparator orders
SortAsc(arr) ==
    LET rank == [p \in 1..Len(arr) |-> Rank(arr, p)] \o <<>>
    IN  [i \in 1..Len(arr) |-> arr[CHOOSE p \in 1..Len(arr) : rank[p] = i]] \o <<>>

Perms(arr) ==
    LET n == Len(arr)
        bij == {f \in [1..n -> 1..n] : \A i, j \in 1..n : f[i] = f[j] => i = j}
    IN  {[i \in 1..n |-> arr[f[i]]] : f \in bij}

\* sortOutcomes with the sort left out
sortOutcomesUnsorted(arr) == {arr}

\* The arrays a sort may leave. With a NaN among the elements the comparator is
\* not a consistent ordering and the resulting order is implementation-defined.
sortOutcomes(arr) == IF HasNaN(arr) THEN Perms(arr) ELSE {SortAsc(arr)}

----------------------------------------------------------------------------
(* stats.js *)

RECURSIVE Total(_, _, _)
\* the loop of average: total += values[i], from index i on (total is never
\* undefined; the test makes the sum be evaluated at every step)
Total(vals, i, total) ==
    IF total.k = "undef" \/ i >= Len(vals) THEN total
    ELSE Total(vals, i + 1, JsAdd(total, At(vals, i)))

average(vals) == JsDiv(Total(vals, 0, NumInt(0)), NumInt(Len(vals)))

\* median returning the upper middle element, whatever the length
medianOfUpperMiddle(v) == At(v, Len(v) \div 2)

\* median after its sort: v is the array as the sort left it
medianOf(v) ==
    LET half == Len(v) \div 2
    IN  IF Len(v) % 2 = 1 THEN At(v, half)
        ELSE JsDiv(JsAdd(At(v, half - 1), At(v, half)), NumInt(2))

\* median(values): sorts the caller's array in place; an outcome is the array
\* it leaves and the value it returns
median(vals) == {[values |-> v, ret |-> medianOf(v)] : v \in sortOutcomes(vals)}

\* quartileOf without the interpolation between the two neighbours
quartileOfNoInterpolation(v, percentile) ==
    At(v, FloorInt(JsMul(NumInt(Len(v) - 1), percentile)))

\* quartile after its sort
quartileOf(v, percentile) ==
    LET pos  == JsMul(NumInt(Len(v) - 1), percentile)
        base == FloorInt(pos)
        rest == JsSub(pos, NumInt(base))
    IN  IF At(v, base + 1).k # "undef"
        THEN JsAdd(At(v, base), JsMul(rest, JsSub(At(v, base + 1), At(v, base))))
        ELSE At(v, base)

\* quartile(values, percentile): sorts the caller's array in place
quartile(vals, percentile) ==
    {[values |-> v, ret |-> quartileOf(v, percentile)] : v \in sortOutcomes(vals)}

\* _jitters(values): a new array, values is only read
jitters(vals) ==
    [i \in 1..(Len(vals) - 1) |-> MathAbs(JsSub(At(vals, i - 1), At(vals, i)))] \o <<>>

jitter(vals) == average(jitters(vals))

\* the temporary array is sorted, not the caller's: only the value comes back
jitterP90(vals) == {o.ret : o \in quartile(jitters(vals), Num(90, 100))}

jitterP95(vals) == {o.ret : o \in quartile(jitters(vals), Num(95, 100))}

p90(vals) == quartile(vals, Num(90, 100))

p95(vals) == quartile(vals, Num(95, 100))

\* what require('./stats.js') has
StatsExports ==
    {"average", "median", "quartile", "jitter", "jitterP90", "jitterP95", "p90", "p95"}

----------------------------------------------------------------------------
(* The command line program: constants of the source *)

LatencyRequests == 100
LatencyBytes == 200
DownloadBytes == 101000
DownloadIterations == 2
UploadBytes == 11000
UploadIterations == 2
HeaderOffset == 22

Drivers == {"latency", "download", "upload"}

----------------------------------------------------------------------------
(* The server-timing header and its parse: parseFloat(value.slice(22)) *)

DigitChars == <<"0", "1", "2", "3", "4", "5", "6", "7", "8", "9">>
IsDigit(c) == \E i \in 1..10 : DigitChars[i] = c
DigitVal(c) == (CHOOSE i \in 1..10 : DigitChars[i] = c) - 1

RECURSIVE ToChars(_)
\* the decimal digits of a natural number
ToChars(n) ==
    IF n < 10 THEN <<DigitChars[n + 1]>>
    ELSE Append(ToChars(n \div 10), DigitChars[(n % 10) + 1])

RECURSIVE Pow10(_)
Pow10(e) == IF e = 0 THEN 1 ELSE 10 * Pow10(e - 1)

RECURSIVE DigitRun(_, _)
\* how many digits the string s has in a row from position p on
DigitRun(s, p) == IF p <= Len(s) /\ IsDigit(s[p]) THEN 1 + DigitRun(s, p + 1) ELSE 0

RECURSIVE DigitsValue(_, _, _)
\* the number written by the n digits of s from position p on
DigitsValue(s, p, n) ==
    IF n = 0 THEN 0
    ELSE DigitsValue(s, p, n - 1) * 10 + DigitVal(s[p + n - 1])

\* String.prototype.slice(begin) for begin >= 0
Slice(s, begin) == SubSeq(s, begin + 1, Len(s))

\* parseFloat of an unsigned decimal literal: the longest prefix of the form
\* digits [ "." digits ]; NaN when the string does not start with a digit
parseFloat(s) ==
    LET ni   == DigitRun(s, 1)
        dot  == ni < Len(s) /\ s[ni + 1] = "."
        nf   == IF dot THEN DigitRun(s, ni + 2) ELSE 0
    IN  IF ni = 0 THEN NaN
        ELSE Num(DigitsValue(s, 1, ni) * Pow10(nf) + DigitsValue(s, ni + 2, nf), Pow10(nf))

\* "cfRequestDuration;dur=": the 22 characters before the number
TimingPrefix ==
    <<"c", "f", "R", "e", "q", "u", "e", "s", "t", "D", "u", "r", "a", "t", "i", "o", "n",
      ";", "d", "u", "r", "=">>

\* a response's headers: the server-timing header may be missing
Header(v) == [present |-> TRUE, value |-> v]
NoHeader == [present |-> FALSE, value |-> <<>>]
TimingHeader(ms) == Header(TimingPrefix \o ToChars(ms))

\* header values that carry no number at offset 22
MalformedHeaders == {Header(<<>>), Header(TimingPrefix \o <<"x">>), Header(<<"m", "i", "s", "s">>)}

ServerTimingHeaders ==
    {TimingHeader(ms) : ms \in 0..MaxServer} \cup MalformedHeaders \cup {NoHeader}

\* a header value that parses as a number
Parses(h) == h.present /\ IsNum(parseFloat(Slice(h.value, HeaderOffset)))

----------------------------------------------------------------------------
(* request(), download(), upload(), measureSpeed() *)

\* the closure of one call of request(): its timestamps so far
NewRequest(k, i) ==
    [drv |-> k, i |-> i, st |-> "sent", started |-> NumInt(0),
     dnsLookup |-> Undefined, tcpHandshake |-> Undefined, sslHandshake |-> Undefined,
     ttfb |-> Undefined]

\* the array request() resolves with, at the 'end' event at time t
Response(r, t, h) ==
    <<r.started, r.dnsLookup, r.tcpHandshake, r.sslHandshake, r.ttfb, NumInt(t),
      parseFloat(Slice(h.value, HeaderOffset))>>

measureSpeed(bytes, duration) ==
    JsDiv(JsDiv(JsMul(NumInt(bytes), NumInt(8)), JsDiv(duration, NumInt(1000))),
          NumInt(1000000))

\* what the success callback of each driver pushes
SampleOf(k, bytes, response) ==
    IF k = "latency" THEN JsSub(JsSub(response[5], response[1]), response[7])
    ELSE IF k = "download" THEN measureSpeed(bytes, JsSub(response[6], response[5]))
    ELSE measureSpeed(bytes, response[7])

----------------------------------------------------------------------------
(* The measurement drivers *)

IdleDriver == [st |-> "idle", bytes |-> 0, iterations |-> 0, i |-> 0, measurements |-> <<>>]

\* a driver called with (bytes, n), n > 0, suspended at the await of iteration 0
StartedDriver(bytes, n) ==
    [st |-> "await", bytes |-> bytes, iterations |-> n, i |-> 0, measurements |-> <<>>]

\* the loop with its await left out: every remaining request goes out at once
IssuedWithoutAwait(k, i, n) == {NewRequest(k, j) : j \in i..(n - 1)}

\* the requests the loop of driver k issues on reaching iteration i, before it
\* suspends: one, since the loop awaits it
IssuedBeforeSuspending(k, i, n) == {NewRequest(k, i)}

\* the error callback pushing a sample instead of only logging
AfterRejectionPush(measurements) == Append(measurements, NaN)

\* the series after the error callback: console.log only, nothing is pushed
AfterRejection(measurements) == measurements

ErrorLine == [label |-> "Error", text |-> <<>>, value |-> Undefined, warn |-> FALSE]

MathMin(arr) ==
    IF arr = <<>> THEN Inf(1)
    ELSE IF HasNaN(arr) THEN NaN
    ELSE CHOOSE x \in {arr[i] : i \in 1..Len(arr)} :
             \A j \in 1..Len(arr) : ~JsLess(arr[j], x)

MathMax(arr) ==
    IF arr = <<>> THEN Inf(-1)
    ELSE IF HasNaN(arr) THEN NaN
    ELSE CHOOSE x \in {arr[i] : i \in 1..Len(arr)} :
             \A j \in 1..Len(arr) : ~JsLess(x, arr[j])

\* the elements of the array measureLatency returns, in evaluation order
SummaryCalls ==
    <<"min", "max", "average", "median", "jitter", "jitterP95", "jitterP99", "p95", "p99">>

\* element j can be evaluated: Math.min and Math.max exist, stats.<name> has to
\* be exported by stats.js (calling a missing export throws a TypeError)
Callable(j) == SummaryCalls[j] \in {"min", "max"} \cup StatsExports

\* how many elements are evaluated before the first call that throws
EvaluatedCount ==
    IF \A j \in 1..Len(SummaryCalls) : Callable(j) THEN Len(SummaryCalls)
    ELSE (CHOOSE j \in 1..Len(SummaryCalls) :
              ~Callable(j) /\ \A l \in 1..(j - 1) : Callable(l)) - 1

----------------------------------------------------------------------------
(* The console report *)

\* Number.prototype.toFixed(2): the nearest multiple of 1/100, the larger one
\* of two equally near, taken on the magnitude; NaN and Infinity print as such
ToFixed2(x) ==
    IF ~IsNum(x) THEN x
    ELSE LET a == IAbs(x.n) * 100
             q == (2 * a + x.d) \div (2 * x.d)
         IN  Num(Sign(x) * q, 100)

\* value.toFixed throws a TypeError when value is undefined
FormatThrows(value) == value.k = "undef"

\* formatResult(value, unitName, warnThreshold, lowerBetter) as a line of the report
formatResult(label, value, unitName, warnThreshold, lowerBetter) ==
    [label |-> label, text |-> <<unitName>>, value |-> ToFixed2(value),
     warn |-> IF lowerBetter THEN JsLess(warnThreshold, value)
              ELSE JsLess(value, warnThreshold)]

formatLatency(label, value, warnThreshold) ==
    formatResult(label, value, "ms", warnThreshold, TRUE)

formatSpeed(label, value, warnThreshold) ==
    formatResult(label, value, "Mbps", warnThreshold, FALSE)

\* logLatency(data): the value and the threshold of each of its four lines
LatencyItems(data) ==
    <<[label |-> "Latency (avg)", value |-> At(data, 3), threshold |-> NumInt(65)],
      [label |-> "Latency (p99)", value |-> At(data, 8), threshold |-> NumInt(85)],
      [label |-> "Jitter (avg)", value |-> At(data, 4), threshold |-> NumInt(10)],
      [label |-> "Jitter (p99)", value |-> At(data, 6), threshold |-> NumInt(15)]>>

\* logLatency throws at the first value that has no toFixed
LatencyThrows(data) == \E j \in 1..4 : FormatThrows(LatencyItems(data)[j].value)

\* the lines logLatency prints: all four, or those before the one that throws
logLatency(data) ==
    LET items == LatencyItems(data)
        n == IF LatencyThrows(data)
             THEN (CHOOSE j \in 1..4 : FormatThrows(items[j].value)
                       /\ \A l \in 1..(j - 1) : ~FormatThrows(items[l].value)) - 1
             ELSE 4
    IN  [j \in 1..n |-> formatLatency(items[j].label, items[j].value, items[j].threshold)]
            \o <<>>

\* logInfo(text, data)
logInfo(label, a, b) == [label |-> label, text |-> <<a, b>>, value |-> Undefined, warn |-> FALSE]

ReportLabels ==
    {"Server location", "Your IP", "Latency (avg)", "Latency (p99)", "Jitter (avg)",
     "Jitter (p99)", "Download speed", "Upload speed"}

----------------------------------------------------------------------------
(* get(), fetchServerLocationData(), fetchCfCdnCgiTrace() *)

\* obj[key] of a JavaScript object with string values
Prop(obj, key) == IF key \in DOMAIN obj THEN obj[key] ELSE "undefined"

EmptyObject == [key \in {} |-> ""]

\* A body of /cdn-cgi/trace after text.split('\n') and i.split('=') of each
\* line: a sequence of lines, each a sequence of fields. The reduce keeps
\* j[0] -> j[1] of every line that has a second field; it never throws.
parseCfCdnCgiTrace(lines) ==
    LET kept == {j \in 1..Len(lines) : Len(lines[j]) >= 2}
        keys == {lines[j][1] : j \in kept}
        last(key) == CHOOSE j \in kept :
                        lines[j][1] = key /\ \A l \in kept : lines[l][1] = key => l <= j
    IN  [key \in keys |-> lines[last(key)][2]]

TraceBodies ==
    {<<<<"ip", "203.0.113.7">>, <<"loc", "PL">>, <<"colo", "WAW">>, <<"">>>>,
     <<<<"<html>error</html>">>>>,
     <<<<"">>>>}

\* A body of /locations as JSON.parse sees it: not JSON at all, JSON that is
\* no array, or an array of {iata, city}
LocationBodies ==
    {[json |-> FALSE, array |-> FALSE, items |-> <<>>],
     [json |-> TRUE, array |-> FALSE, items |-> <<>>],
     [json |-> TRUE, array |-> TRUE, items |-> <<[iata |-> "WAW", city |-> "Warsaw"]>>]}

\* JSON.parse throws a SyntaxError; res.reduce is no function of a non-array
LocationThrows(body) == ~body.json \/ ~body.array

\* fetchServerLocationData: the reduce to iata -> city
LocationData(body) ==
    LET codes == {body.items[j].iata : j \in 1..Len(body.items)}
        last(code) == CHOOSE j \in 1..Len(body.items) :
                         body.items[j].iata = code
                         /\ \A l \in 1..Len(body.items) : body.items[l].iata = code => l <= j
    IN  [code \in codes |-> body.items[last(code)].city]

\* the bodies the response of metadata request m may have
MetaBodies(m) == IF m = "loc" THEN LocationBodies ELSE TraceBodies

\* How a request of get() has ended: fulfilled (a well-formed body, parsed),
\* lenient (a malformed body, and the promise fulfilled all the same), refused
\* (a malformed body, the promise rejected), failed (an error after the
\* response, the promise rejected), uncaught (an error before the response).
MetaEnded == {"fulfilled", "lenient", "refused", "failed", "uncaught"}

\* the body is what the endpoint is to send: a JSON array for /locations, the
\* lines ip=, loc= and colo= for /cdn-cgi/trace
WellFormed(m, body) ==
    IF m = "loc" THEN body.json /\ body.array
    ELSE {"ip", "loc", "colo"} \subseteq DOMAIN parseCfCdnCgiTrace(body)

----------------------------------------------------------------------------
(* speedTest(): Promise.all and what follows each await *)

NoChild == [st |-> "none", val |-> <<>>]
Pending == [st |-> "pending", val |-> <<>>]
Rejected == [st |-> "rejected", val |-> <<>>]
Fulfilled(v) == [st |-> "fulfilled", val |-> v]

\* the settled metadata promise for the body its request ended with
MetaSettled(m, body) ==
    IF m = "loc"
    THEN (IF LocationThrows(body) THEN Rejected ELSE Fulfilled(LocationData(body)))
    ELSE Fulfilled(parseCfCdnCgiTrace(body))

\* Promise.all rejects as soon as one of its promises rejects
JoinRejects(ch) == \E c \in DOMAIN ch : ch[c].st = "rejected"

\* the join waiting for the latency measurement only
JoinFulfilsOnPing(ch) == ch.ping.st = "fulfilled"

\* Promise.all fulfils when each of its promises has fulfilled
JoinFulfils(ch) == \A c \in DOMAIN ch : ch[c].st = "fulfilled"

\* speedTest() is called without a catch: its rejection is an unhandled
\* rejection, which ends the process or only warns (--unhandled-rejections)
AfterUnhandled == IF unhandled = "throw" THEN "exited" ELSE proc

\* lines 274-276: the two logInfo lines
InfoLines(ch) ==
    LET colo == Prop(ch.trace.val, "colo")
    IN  <<logInfo("Server location", Prop(ch.loc.val, colo), colo),
          logInfo("Your IP", Prop(ch.trace.val, "ip"), Prop(ch.trace.val, "loc"))>>

\* a join whose metadata callbacks share the series with the latency loop and
\* empty it
JoinedSharingSeries(ch, drv2, reqs2, now2, out2) ==
    /\ child' = ch
    /\ main' = main /\ proc' = proc
    /\ drv' = [drv2 EXCEPT !["latency"].measurements = <<>>]
    /\ reqs' = reqs2 /\ now' = now2 /\ out' = out2

\* One of the three promises of Promise.all has settled: ch is the three after
\* it; drv2, reqs2, now2, out2 are what the settling handler has made of the
\* variables. speedTest resumes if the join settles: it throws on a rejection,
\* else prints the head of the report and calls measureDownload(101000, 2).
Joined(ch, drv2, reqs2, now2, out2) ==
    /\ child' = ch
    /\ IF main = "join" /\ JoinRejects(ch)
       THEN /\ main' = "rejected"
            /\ proc' = AfterUnhandled
            /\ drv' = drv2 /\ reqs' = reqs2 /\ now' = now2 /\ out' = out2
       ELSE IF main = "join" /\ JoinFulfils(ch)
       THEN /\ out' = out2 \o InfoLines(ch) \o logLatency(ch.ping.val)
            /\ IF LatencyThrows(ch.ping.val)
               THEN /\ main' = "rejected"
                    /\ proc' = AfterUnhandled
                    /\ drv' = drv2 /\ reqs' = reqs2 /\ now' = now2
               ELSE /\ main' = "download"
                    /\ proc' = proc
                    /\ drv' = [drv2 EXCEPT !["download"] =
                                  StartedDriver(DownloadBytes, DownloadIterations)]
                    /\ reqs' = reqs2 \cup
                                  IssuedBeforeSuspending("download", 0, DownloadIterations)
                    /\ now' = 0
       ELSE /\ main' = main /\ proc' = proc
            /\ drv' = drv2 /\ reqs' = reqs2 /\ now' = now2 /\ out' = out2

\* measureLatency after its loop: the statistics of the series ms, in the order
\* of the array literal. median sorts ms in place; the later elements see the
\* sorted array. The call of stats.jitterP99 throws: the promise of
\* measureLatency rejects.
LatencyReturns(r, ms, out2, t) ==
    \E o \in median(ms) : \E j95 \in jitterP95(o.values) :
        /\ EvaluatedCount = 6
        /\ evaluated' = <<MathMin(ms), MathMax(ms), average(ms), o.ret,
                          jitter(o.values), j95>>
        /\ Joined([child EXCEPT !.ping = Rejected],
                  [drv EXCEPT !["latency"] =
                      [@ EXCEPT !.st = "done", !.i = @ + 1, !.measurements = o.values]],
                  reqs \ {r}, t, out2)

\* measureDownload / measureUpload called on their own return the series
SeriesReturns(k, r, ms, out2, t) ==
    /\ drv' = [drv EXCEPT ![k] = [@ EXCEPT !.st = "done", !.i = @ + 1, !.measurements = ms]]
    /\ reqs' = reqs \ {r}
    /\ now' = t
    /\ out' = out2
    /\ UNCHANGED <<child, main, evaluated, proc>>

\* lines 295-304: measureDownload has returned ms to speedTest, which prints the
\* 0.9-quantile of a copy and calls measureUpload(11000, 2). The quantile of an
\* empty series is undefined, and formatSpeed throws on it.
DownloadReturns(r, ms, out2, t) ==
    \E o \in quartile(ms, Num(9, 10)) :
        LET done == [drv EXCEPT !["download"] =
                        [@ EXCEPT !.st = "done", !.i = @ + 1, !.measurements = ms]]
        IN  /\ UNCHANGED <<child, evaluated>>
            /\ IF FormatThrows(o.ret)
               THEN /\ main' = "rejected"
                    /\ proc' = AfterUnhandled
                    /\ drv' = done /\ reqs' = reqs \ {r} /\ now' = t /\ out' = out2
               ELSE /\ out' = Append(out2, formatSpeed("Download speed", o.ret, NumInt(3)))
                    /\ main' = "upload"
                    /\ proc' = proc
                    /\ drv' = [done EXCEPT !["upload"] =
                                  StartedDriver(UploadBytes, UploadIterations)]
                    /\ reqs' = (reqs \ {r}) \cup
                                  IssuedBeforeSuspending("upload", 0, UploadIterations)
                    /\ now' = 0

\* lines 307-312: measureUpload has returned; the last line, and speedTest ends
UploadReturns(r, ms, out2, t) ==
    \E o \in quartile(ms, Num(9, 10)) :
        /\ UNCHANGED <<child, evaluated>>
        /\ drv' = [drv EXCEPT !["upload"] =
                      [@ EXCEPT !.st = "done", !.i = @ + 1, !.measurements = ms]]
        /\ reqs' = reqs \ {r}
        /\ now' = t
        /\ IF FormatThrows(o.ret)
           THEN /\ main' = "rejected"
                /\ proc' = AfterUnhandled
                /\ out' = out2
           ELSE /\ out' = Append(out2, formatSpeed("Upload speed", o.ret, NumInt(1)))
                /\ main' = "done"
                /\ proc' = proc

\* the loop of driver k leaves its last iteration: the driver returns to its
\* caller, speedTest or (main = "none") a caller of the driver alone
Returns(k, r, ms, out2, t) ==
    IF k = "latency" THEN LatencyReturns(r, ms, out2, t)
    ELSE IF main = "none" THEN SeriesReturns(k, r, ms, out2, t)
    ELSE IF k = "download" THEN DownloadReturns(r, ms, out2, t)
    ELSE UploadReturns(r, ms, out2, t)

\* the promise of request r settled at time t: the callback of then() runs, the
\* loop goes on to the next iteration or the driver returns
Continue(r, t, outcome, sample, hdr) ==
    LET k    == r.drv
        d    == drv[k]
        ms   == IF outcome = "resolved" THEN Append(d.measurements, sample)
                ELSE AfterRejection(d.measurements)
        out2 == IF outcome = "rejected" THEN Append(out, ErrorLine) ELSE out
    IN  /\ hist' = Append(hist, [drv |-> k, i |-> r.i, outcome |-> outcome,
                                 sample |-> sample, hdr |-> hdr])
        /\ IF d.i + 1 < d.iterations
           THEN /\ drv' = [drv EXCEPT ![k] = [d EXCEPT !.i = d.i + 1, !.measurements = ms]]
                /\ reqs' = (reqs \ {r}) \cup IssuedBeforeSuspending(k, d.i + 1, d.iterations)
                /\ now' = 0
                /\ out' = out2
                /\ UNCHANGED <<child, main, evaluated, proc>>
           ELSE Returns(k, r, ms, out2, t)

----------------------------------------------------------------------------
(* The events of a run *)

\* res.once('readable'): the first byte of the response
RequestReadable(r, dt) ==
    /\ proc = "running"
    /\ r \in reqs
    /\ r.st = "sent"
    /\ now' = now + dt
    /\ reqs' = (reqs \ {r}) \cup {[r EXCEPT !.st = "readable", !.ttfb = NumInt(now + dt)]}
    /\ UNCHANGED <<drv, hist, out, meta, child, main, evaluated, proc, unhandled>>
    /\ UNCHANGED statsVars

\* res.on('end'): builds the array and resolves. Without a server-timing header
\* the listener throws (slice of undefined) and no one catches: the process dies.
RequestEnd(r, dt, h) ==
    /\ proc = "running"
    /\ r \in reqs
    /\ r.st = "readable"
    /\ IF ~h.present
       THEN /\ proc' = "crashed"
            /\ now' = now + dt
            /\ UNCHANGED <<reqs, drv, hist, out, child, main, evaluated>>
       ELSE Continue(r, now + dt, "resolved",
                     SampleOf(r.drv, drv[r.drv].bytes, Response(r, now + dt, h)),
                     IF Parses(h) THEN "number" ELSE "malformed")
    /\ UNCHANGED <<meta, unhandled>>
    /\ UNCHANGED statsVars

\* req.on('error'): rejects
RequestError(r, dt) ==
    /\ proc = "running"
    /\ r \in reqs
    /\ Continue(r, now + dt, "rejected", Undefined, "none")
    /\ UNCHANGED <<meta, unhandled>>
    /\ UNCHANGED statsVars

\* the response callback of get(): the listeners of 'data', 'end' and of the
\* request's 'error' are attached now
MetaResponse(m) ==
    /\ proc = "running"
    /\ meta[m] = "sent"
    /\ meta' = [meta EXCEPT ![m] = "responded"]
    /\ UNCHANGED <<now, reqs, drv, hist, out, child, main, evaluated, proc, unhandled>>
    /\ UNCHANGED statsVars

\* res.on('end') of get(): resolves with the body; the fetch function parses it
MetaEnd(m, body) ==
    /\ proc = "running"
    /\ meta[m] = "responded"
    /\ meta' = [meta EXCEPT ![m] =
                   IF MetaSettled(m, body).st = "rejected" THEN "refused"
                   ELSE IF WellFormed(m, body) THEN "fulfilled" ELSE "lenient"]
    /\ Joined([child EXCEPT ![m] = MetaSettled(m, body)], drv, reqs, now, out)
    /\ UNCHANGED <<hist, evaluated, unhandled>>
    /\ UNCHANGED statsVars

\* an 'error' event of the request of get(): before the response there is no
\* listener for it and the process dies; after it the promise rejects
MetaError(m) ==
    /\ proc = "running"
    /\ meta[m] \in {"sent", "responded"}
    /\ IF meta[m] = "sent"
       THEN /\ proc' = "crashed"
            /\ meta' = [meta EXCEPT ![m] = "uncaught"]
            /\ UNCHANGED <<now, reqs, drv, out, child, main>>
       ELSE /\ meta' = [meta EXCEPT ![m] = "failed"]
            /\ Joined([child EXCEPT ![m] = Rejected], drv, reqs, now, out)
    /\ UNCHANGED <<hist, evaluated, unhandled>>
    /\ UNCHANGED statsVars

Readable == \E r \in reqs : \E dt \in 0..MaxStep : RequestReadable(r, dt)
End == \E r \in reqs : \E dt \in 0..MaxStep : \E h \in ServerTimingHeaders : RequestEnd(r, dt, h)
Error == \E r \in reqs : \E dt \in 0..MaxStep : RequestError(r, dt)
Responded == \E m \in {"loc", "trace"} : MetaResponse(m)
Fetched == \E m \in {"loc", "trace"} : \E body \in MetaBodies(m) : MetaEnd(m, body)
FetchError == \E m \in {"loc", "trace"} : MetaError(m)

IdleProgram ==
    /\ now = 0
    /\ reqs = {}
    /\ drv = [k \in Drivers |-> IdleDriver]
    /\ hist = <<>>
    /\ out = <<>>
    /\ meta = [loc |-> "idle", trace |-> "idle"]
    /\ child = [ping |-> NoChild, loc |-> NoChild, trace |-> NoChild]
    /\ main = "none"
    /\ evaluated = <<>>
    /\ proc = "running"
    /\ unhandled = "throw"

IdleStats ==
    /\ values = <<>>
    /\ orig = <<>>
    /\ ret = Undefined
    /\ called = [fn |-> "none", q |-> NaN]

----------------------------------------------------------------------------
(* The program: speedTest() from its call to the end of the process. The    *)
(* state after the call: measureLatency has issued its first request, both  *)
(* metadata requests are out, speedTest awaits Promise.all.                 *)

Init ==
    /\ IdleStats
    /\ now = 0
    /\ reqs = IssuedBeforeSuspending("latency", 0, RunLatencyCount)
    /\ drv = [k \in Drivers |-> IF k = "latency"
                                 THEN StartedDriver(LatencyBytes, RunLatencyCount)
                                 ELSE IdleDriver]
    /\ hist = <<>>
    /\ out = <<>>
    /\ meta = [loc |-> "sent", trace |-> "sent"]
    /\ child = [ping |-> Pending, loc |-> Pending, trace |-> Pending]
    /\ main = "join"
    /\ evaluated = <<>>
    /\ proc = "running"
    /\ unhandled \in {"throw", "warn"}

Next == Readable \/ End \/ Error \/ Responded \/ Fetched \/ FetchError

Spec == Init /\ [][Next]_vars

\* The program when nothing fails: every measurement response ends with a
\* server-timing header that parses, every metadata response with a
\* well-formed body, and no request has an error.
EndParsed ==
    \E r \in reqs : \E dt \in 0..MaxStep : \E ms \in 0..MaxServer :
        RequestEnd(r, dt, TimingHeader(ms))

FetchedWellFormed ==
    \E m \in {"loc", "trace"} : \E body \in MetaBodies(m) :
        WellFormed(m, body) /\ MetaEnd(m, body)

NextSuccess == Readable \/ EndParsed \/ Responded \/ FetchedWellFormed

SpecSuccess == Init /\ [][NextSuccess]_vars

----------------------------------------------------------------------------
(* One driver called on its own: measureLatency(), measureDownload(bytes, n) *)
(* or measureUpload(bytes, n), with every outcome of every request.          *)

DriverCalls ==
    {[k |-> "latency", bytes |-> LatencyBytes, n |-> LatencyCount]}
    \cup {[k |-> k, bytes |-> b, n |-> n] :
             k \in {"download", "upload"}, b \in {DownloadBytes, UploadBytes},
             n \in 1..MaxIterations}

InitDriver ==
    /\ IdleStats
    /\ \E c \in DriverCalls :
        /\ drv = [k \in Drivers |-> IF k = c.k THEN StartedDriver(c.bytes, c.n)
                                    ELSE IdleDriver]
        /\ reqs = IssuedBeforeSuspending(c.k, 0, c.n)
    /\ now = 0
    /\ hist = <<>>
    /\ out = <<>>
    /\ meta = [loc |-> "idle", trace |-> "idle"]
    /\ child = [ping |-> NoChild, loc |-> NoChild, trace |-> NoChild]
    /\ main = "none"
    /\ evaluated = <<>>
    /\ proc = "running"
    /\ unhandled = "throw"

NextDriver == Readable \/ End \/ Error

SpecDriver == InitDriver /\ [][NextDriver]_vars

\* the requests of the drivers, in the program and with a driver called alone
SpecRequests == (Init \/ InitDriver) /\ [][Next]_vars

----------------------------------------------------------------------------
(* request() called once, listener by listener: the events of the socket,   *)
(* of the response and of the request in every order node can deliver them, *)
(* and a caller that notes each time the promise settles. reqs holds the    *)
(* call, also after it has settled; hist holds what the caller was told.    *)

MaxChunks == 1   \* 'data' events of one response

\* status codes of the response: res.statusCode is never read
StatusCodes == {200, 404, 500}

\* the order of the socket events on a new connection
SocketRank == [lookup |-> 1, connect |-> 2, secureConnect |-> 3]

\* the variable of request() a socket event writes
SocketField == [lookup |-> "dnsLookup", connect |-> "tcpHandshake",
                secureConnect |-> "sslHandshake"]

\* request(options, data) just called: started is set, nothing else
Executing(k) ==
    [drv |-> k, i |-> 0, st |-> "sent", started |-> NumInt(0),
     dnsLookup |-> Undefined, tcpHandshake |-> Undefined, sslHandshake |-> Undefined,
     ttfb |-> Undefined, ended |-> Undefined, statusCode |-> 0, socket |-> 0,
     chunks |-> 0, error |-> FALSE, promise |-> "pending"]

\* a promise whose resolve and reject act every time they are called
SettleAgain(promise, outcome) == outcome

\* resolve / reject of a promise: only the first call settles it
Settle(promise, outcome) == IF promise = "pending" THEN outcome ELSE promise

\* an 'end' listener that rejects a response whose status is not 2xx
EndOutcomeByStatus(r) == IF r.statusCode \in 200..299 THEN "resolved" ELSE "rejected"

\* the 'end' listener calls resolve, whatever the status of the response
EndOutcome(r) == "resolved"

\* the bytes the drivers of the program pass for a request
BytesOf(k) ==
    IF k = "latency" THEN LatencyBytes
    ELSE IF k = "download" THEN DownloadBytes ELSE UploadBytes

\* the callbacks of then() of the caller run when the promise settles
Told(r, r2, record) ==
    IF r2.promise = r.promise THEN hist
    ELSE Append(hist, [drv |-> r.drv, i |-> r.i, outcome |-> r2.promise,
                       record |-> record,
                       sample |-> IF r2.promise = "resolved"
                                  THEN SampleOf(r.drv, BytesOf(r.drv), record)
                                  ELSE Undefined,
                       statusCode |-> r.statusCode])

ExecFrame == UNCHANGED <<drv, out, meta, child, main, evaluated, unhandled>> /\ UNCHANGED statsVars

\* socket.on('lookup' | 'connect' | 'secureConnect'): one timestamp each; a
\* reused socket fires none of them
SocketEvent(r, e, dt) ==
    /\ proc = "running"
    /\ r \in reqs
    /\ r.st = "sent" /\ ~r.error
    /\ r.socket < SocketRank[e]
    /\ now' = now + dt
    /\ reqs' = {[r EXCEPT ![SocketField[e]] = NumInt(now + dt), !.socket = SocketRank[e]]}
    /\ UNCHANGED <<hist, proc>>
    /\ ExecFrame

\* the response callback: the listeners of the response are attached
ResponseCallback(r, status, dt) ==
    /\ proc = "running"
    /\ r \in reqs
    /\ r.st = "sent" /\ ~r.error
    /\ now' = now + dt
    /\ reqs' = {[r EXCEPT !.st = "response", !.statusCode = status]}
    /\ UNCHANGED <<hist, proc>>
    /\ ExecFrame

\* res.once('readable'): fires once, before any 'data' and before 'end'
ResponseReadable(r, dt) ==
    /\ proc = "running"
    /\ r \in reqs
    /\ r.st = "response"
    /\ now' = now + dt
    /\ reqs' = {[r EXCEPT !.st = "readable", !.ttfb = NumInt(now + dt)]}
    /\ UNCHANGED <<hist, proc>>
    /\ ExecFrame

\* res.on('data', () => {}): the chunk is dropped
ResponseData(r, dt) ==
    /\ proc = "running"
    /\ r \in reqs
    /\ r.st = "readable"
    /\ r.chunks < MaxChunks
    /\ now' = now + dt
    /\ reqs' = {[r EXCEPT !.chunks = @ + 1]}
    /\ UNCHANGED <<hist, proc>>
    /\ ExecFrame

\* res.on('end'): sets ended and calls resolve with the array; without a
\* server-timing header the listener throws before resolve is called
ResponseEnd(r, dt, h) ==
    /\ proc = "running"
    /\ r \in reqs
    /\ r.st = "readable"
    /\ now' = now + dt
    /\ LET e  == [r EXCEPT !.st = "ended", !.ended = NumInt(now + dt)]
           r2 == [e EXCEPT !.promise = Settle(r.promise, EndOutcome(r))]
       IN  IF ~h.present
           THEN /\ reqs' = {e}
                /\ proc' = "crashed"
                /\ hist' = hist
           ELSE /\ reqs' = {r2}
                /\ proc' = proc
                /\ hist' = Told(r, r2, Response(r, now + dt, h))
    /\ ExecFrame

\* req.on('error'): calls reject; the event may come at any time
RequestErrorEvent(r, dt) ==
    /\ proc = "running"
    /\ r \in reqs
    /\ ~r.error
    /\ now' = now + dt
    /\ LET r2 == [r EXCEPT !.error = TRUE, !.promise = Settle(r.promise, "rejected")]
       IN  /\ reqs' = {r2}
           /\ hist' = Told(r, r2, <<>>)
    /\ UNCHANGED proc
    /\ ExecFrame

InitRequest ==
    /\ IdleStats
    /\ now = 0
    /\ \E k \in Drivers : reqs = {Executing(k)}
    /\ drv = [k \in Drivers |-> IdleDriver]
    /\ hist = <<>>
    /\ out = <<>>
    /\ meta = [loc |-> "idle", trace |-> "idle"]
    /\ child = [ping |-> NoChild, loc |-> NoChild, trace |-> NoChild]
    /\ main = "none"
    /\ evaluated = <<>>
    /\ proc = "running"
    /\ unhandled = "throw"

OnSocket ==
    \E r \in reqs : \E e \in DOMAIN SocketRank : \E dt \in 0..MaxStep : SocketEvent(r, e, dt)
OnResponse ==
    \E r \in reqs : \E status \in StatusCodes : \E dt \in 0..MaxStep :
        ResponseCallback(r, status, dt)
OnReadable == \E r \in reqs : \E dt \in 0..MaxStep : ResponseReadable(r, dt)
OnData == \E r \in reqs : \E dt \in 0..MaxStep : ResponseData(r, dt)
OnEnd ==
    \E r \in reqs : \E dt \in 0..MaxStep : \E h \in ServerTimingHeaders : ResponseEnd(r, dt, h)
OnError == \E r \in reqs : \E dt \in 0..MaxStep : RequestErrorEvent(r, dt)

NextRequest == OnSocket \/ OnResponse \/ OnReadable \/ OnData \/ OnEnd \/ OnError

SpecRequest == InitRequest /\ [][NextRequest]_vars

----------------------------------------------------------------------------
(* measureLatency() with its 100 requests, each one answered after 52 ms with *)
(* a server-timing of 2 ms.                                                   *)

ScenarioFirstByte == 52
ScenarioServerTiming == 2

InitScenario ==
    /\ IdleStats
    /\ drv = [k \in Drivers |-> IF k = "latency"
                                 THEN StartedDriver(LatencyBytes, LatencyRequests)
                                 ELSE IdleDriver]
    /\ reqs = IssuedBeforeSuspending("latency", 0, LatencyRequests)
    /\ now = 0
    /\ hist = <<>>
    /\ out = <<>>
    /\ meta = [loc |-> "idle", trace |-> "idle"]
    /\ child = [ping |-> NoChild, loc |-> NoChild, trace |-> NoChild]
    /\ main = "none"
    /\ evaluated = <<>>
    /\ proc = "running"
    /\ unhandled = "throw"

ScenarioReadable == \E r \in reqs : RequestReadable(r, ScenarioFirstByte)
ScenarioEnd ==
    \E r \in reqs : \E dt \in 0..1 : RequestEnd(r, dt, TimingHeader(ScenarioServerTiming))

NextScenario == ScenarioReadable \/ ScenarioEnd

SpecScenario == InitScenario /\ [][NextScenario]_vars

----------------------------------------------------------------------------
(* speedTest() with the result of measureLatency() taken from the           *)
(* specification: a summary of nine statistics of some series, or a         *)
(* rejection. The metadata requests, the join, the two throughput drivers   *)
(* and the report are those of the source.                                  *)

\* the series whose summaries the latency promise may fulfil with
SummarySeries == {IntsToNums(<<50, 50>>), IntsToNums(<<90, 60, 70>>)}

\* the order statistic of the sorted series, the jitter in collection order
LatencySummary(series) ==
    LET sorted == SortAsc(series)
        diffs  == SortAsc(jitters(series))
    IN  <<MathMin(series), MathMax(series), average(series), medianOf(sorted),
          jitter(series), quartileOf(diffs, Num(95, 100)), quartileOf(diffs, Num(99, 100)),
          quartileOf(sorted, Num(95, 100)), quartileOf(sorted, Num(99, 100))>>

\* the promise of measureLatency() settles
LatencySettles ==
    /\ proc = "running"
    /\ child.ping.st = "pending"
    /\ drv["latency"].st = "idle"
    /\ \E p \in {Fulfilled(LatencySummary(s)) : s \in SummarySeries} \cup {Rejected} :
           Joined([child EXCEPT !.ping = p], drv, reqs, now, out)
    /\ UNCHANGED <<hist, meta, evaluated, unhandled>>
    /\ UNCHANGED statsVars

InitReport ==
    /\ IdleStats
    /\ now = 0
    /\ reqs = {}
    /\ drv = [k \in Drivers |-> IdleDriver]
    /\ hist = <<>>
    /\ out = <<>>
    /\ meta = [loc |-> "sent", trace |-> "sent"]
    /\ child = [ping |-> Pending, loc |-> Pending, trace |-> Pending]
    /\ main = "join"
    /\ evaluated = <<>>
    /\ proc = "running"
    /\ unhandled \in {"throw", "warn"}

NextReport ==
    Readable \/ End \/ Error \/ Responded \/ Fetched \/ FetchError \/ LatencySettles

SpecReport == InitReport /\ [][NextReport]_vars

----------------------------------------------------------------------------
(* speedTest() when a request may hang: from some moment on the server sends *)
(* nothing more, so neither 'end' nor 'error' is ever emitted for it, while  *)
(* time passes.                                                              *)

MaxWait == 2   \* ms of waiting on a hung request that are explored

\* a request() or get() with a timer that gives up after a wait
TimesOutAfterWait(t) == t >= 1

\* request() and get() set no timer and no timeout on the request or its
\* socket: no wait ends a request
TimesOut(t) == FALSE

\* the server goes silent on a measurement request
RequestHangs(r) ==
    /\ proc = "running"
    /\ r \in reqs
    /\ r.st \in {"sent", "readable"}
    /\ reqs' = (reqs \ {r}) \cup {[r EXCEPT !.st = "hung"]}
    /\ UNCHANGED <<now, drv, hist, out, meta, child, main, evaluated, proc, unhandled>>
    /\ UNCHANGED statsVars

\* the server goes silent on a metadata request
MetaHangs(m) ==
    /\ proc = "running"
    /\ meta[m] \in {"sent", "responded"}
    /\ meta' = [meta EXCEPT ![m] = "hung"]
    /\ UNCHANGED <<now, reqs, drv, hist, out, child, main, evaluated, proc, unhandled>>
    /\ UNCHANGED statsVars

\* a millisecond passes while a request hangs; a request that timed out would
\* get its 'error' event
TimePasses ==
    /\ proc = "running"
    /\ now < MaxWait
    /\ \/ \E r \in reqs : r.st = "hung"
       \/ \E m \in DOMAIN meta : meta[m] = "hung"
    /\ now' = now + 1
    /\ reqs' = IF TimesOut(now + 1)
               THEN {[r EXCEPT !.st = IF @ = "hung" THEN "sent" ELSE @] : r \in reqs}
               ELSE reqs
    /\ UNCHANGED <<drv, hist, out, meta, child, main, evaluated, proc, unhandled>>
    /\ UNCHANGED statsVars

Hangs == (\E r \in reqs : RequestHangs(r)) \/ (\E m \in {"loc", "trace"} : MetaHangs(m))

\* 'error' of a request that has not hung
ErrorLive == \E r \in reqs : \E dt \in 0..MaxStep : r.st # "hung" /\ RequestError(r, dt)

NextHang ==
    \/ Readable \/ End \/ ErrorLive \/ Responded \/ Fetched \/ FetchError \/ LatencySettles
    \/ Hangs \/ TimePasses

SpecHang == (Init \/ InitReport) /\ [][NextHang]_vars

----------------------------------------------------------------------------
(* A caller of stats.js: builds an array and calls the exported functions on *)
(* it, any number of times, in any order.                                    *)

RECURSIVE SeqsUpTo(_, _)
SeqsUpTo(S, n) ==
    IF n = 0 THEN {<<>>}
    ELSE LET shorter == SeqsUpTo(S, n - 1)
         IN  shorter \cup {Append(s, x) : s \in {t \in shorter : Len(t) = n - 1}, x \in S}

\* the series of the scenarios of the specification, besides the bounded ones
ScenarioSeries == {<<10, 20, 30, 40, 50>>, <<1, 2, 3, 4>>}

StatsInputs == {IntsToNums(xs) : xs \in SeqsUpTo(0..MaxVal, MaxLen) \cup ScenarioSeries}

Percentiles == {Num(k, QDen) : k \in 0..QDen} \cup {Num(90, 100), Num(95, 100), Num(99, 100)}

NoCall == [fn |-> "none", q |-> NaN]

InitStats ==
    /\ IdleProgram
    /\ values \in StatsInputs
    /\ orig = values
    /\ ret = Undefined
    /\ called = NoCall

CallAverage ==
    /\ ret' = average(values)
    /\ called' = [fn |-> "average", q |-> NaN]
    /\ UNCHANGED <<values, orig>>
    /\ UNCHANGED progVars

CallMedian ==
    \E o \in median(values) :
        /\ values' = o.values
        /\ ret' = o.ret
        /\ called' = [fn |-> "median", q |-> NaN]
        /\ UNCHANGED orig
        /\ UNCHANGED progVars

CallQuartile ==
    \E q \in Percentiles : \E o \in quartile(values, q) :
        /\ values' = o.values
        /\ ret' = o.ret
        /\ called' = [fn |-> "quartile", q |-> q]
        /\ UNCHANGED orig
        /\ UNCHANGED progVars

CallJitter ==
    /\ ret' = jitter(values)
    /\ called' = [fn |-> "jitter", q |-> NaN]
    /\ UNCHANGED <<values, orig>>
    /\ UNCHANGED progVars

CallJitterP90 ==
    \E r \in jitterP90(values) :
        /\ ret' = r
        /\ called' = [fn |-> "jitterP90", q |-> NaN]
        /\ UNCHANGED <<values, orig>>
        /\ UNCHANGED progVars
    /\ UNCHANGED progVars

CallJitterP95 ==
    \E r \in jitterP95(values) :
        /\ ret' = r
        /\ called' = [fn |-> "jitterP95", q |-> NaN]
        /\ UNCHANGED <<values, orig>>
        /\ UNCHANGED progVars
    /\ UNCHANGED progVars

CallP90 ==
    \E o \in p90(values) :
        /\ values' = o.values
        /\ ret' = o.ret
        /\ called' = [fn |-> "p90", q |-> NaN]
        /\ UNCHANGED orig
        /\ UNCHANGED progVars

CallP95 ==
    \E o \in p95(values) :
        /\ values' = o.values
        /\ ret' = o.ret
        /\ called' = [fn |-> "p95", q |-> NaN]
        /\ UNCHANGED orig
        /\ UNCHANGED progVars

NextStats ==
    \/ CallAverage
    \/ CallMedian
    \/ CallQuartile
    \/ CallJitter
    \/ CallJitterP90
    \/ CallJitterP95
    \/ CallP90
    \/ CallP95

SpecStats == InitStats /\ [][NextStats]_vars

----------------------------------------------------------------------------
(* Properties of stats.js, checked under SpecStats *)

Elems(arr) == {arr[i] : i \in 1..Len(arr)}

\* the nondecreasing arrangement of a series of numbers
Ascending(xs) ==
    CHOOSE s \in Perms(xs) : \A i \in 1..(Len(s) - 1) : ~JsLess(s[i + 1], s[i])

MinOf(xs) == CHOOSE x \in Elems(xs) : \A y \in Elems(xs) : ~JsLess(y, x)
MaxOf(xs) == CHOOSE x \in Elems(xs) : \A y \in Elems(xs) : ~JsLess(x, y)

\* the linear-interpolated order statistic of a series of integers at q = q.n/q.d,
\* in integer arithmetic: pos = (n-1)*q, base = floor(pos), frac = pos - base
LinearQuantile(xs, q) ==
    LET s       == Ascending(xs)
        posNum  == (Len(xs) - 1) * q.n
        base    == posNum \div q.d
        fracNum == posNum - base * q.d
    IN  IF base = Len(xs) - 1 THEN s[base + 1]
        ELSE Num(s[base + 1].n * q.d + fracNum * (s[base + 2].n - s[base + 1].n), q.d)

QuartileCalled == called.fn = "quartile" /\ Len(orig) > 0

\* C2: median and quantile leave the caller's series as it was: the same
\* elements in the same order, after one call and after repeated calls.
C2_SeriesNotMutated ==
    (called.fn \in {"median", "quartile"} /\ Len(orig) > 0) => values = orig

\* C9: quantile(xs, q) of a non-empty series is the linear-interpolated order
\* statistic of the sorted values; quantile([10,20,30,40,50], 0.9) = 46 and
\* quantile([1,2,3,4], 0.5) = 2.5.
C9_QuantileLinear ==
    QuartileCalled =>
        /\ ret = LinearQuantile(orig, called.q)
        /\ (orig = IntsToNums(<<10, 20, 30, 40, 50>>) /\ called.q = Num(9, 10))
              => ret = NumInt(46)
        /\ (orig = IntsToNums(<<1, 2, 3, 4>>) /\ called.q = Num(1, 2))
              => ret = Num(5, 2)

C9_Witness ==
    /\ QuartileCalled
    /\ orig = IntsToNums(<<10, 20, 30, 40, 50>>)
    /\ called.q = Num(9, 10)
    /\ ret = NumInt(46)

\* C10: quantile(xs, 0) is the minimum and quantile(xs, 1) the maximum of a
\* non-empty series; at q = 1 the last sorted element comes back, a number,
\* also for a series of one element.
C10_QuantileEnds ==
    QuartileCalled =>
        /\ called.q = NumInt(0) => ret = MinOf(orig)
        /\ called.q = NumInt(1) => (ret = MaxOf(orig) /\ IsNum(ret))
        /\ (called.q = NumInt(1) /\ Len(orig) = 1) => ret = orig[1]

C10_Witness ==
    /\ QuartileCalled
    /\ called.q = NumInt(1)
    /\ Len(orig) > 1
    /\ orig[Len(orig)] # MaxOf(orig)
    /\ ret = MaxOf(orig)

\* C11: median is the middle element of the sorted series for an odd length
\* and the mean of the two middle elements for an even length; median([a]) = a,
\* median([a, b]) = (a + b) / 2; every permutation of the series gives the
\* same result.
C11_MedianOfSorted ==
    (called.fn = "median" /\ Len(orig) > 0) =>
        LET s == Ascending(orig)
            n == Len(orig)
        IN  /\ n % 2 = 1 => ret = s[(n + 1) \div 2]
            /\ n % 2 = 0 => ret = Num(s[n \div 2].n + s[n \div 2 + 1].n, 2)
            /\ n = 1 => ret = orig[1]
            /\ n = 2 => ret = Num(orig[1].n + orig[2].n, 2)
            /\ \A p \in Perms(orig) : \A o \in median(p) : o.ret = ret

\* median of an unsorted series of even length whose result is no element of it
C11_Witness ==
    /\ called.fn = "median"
    /\ Len(orig) = 2
    /\ orig # Ascending(orig)
    /\ ret \notin Elems(orig)

RECURSIVE AbsDiffSum(_, _)
\* |xs[i] - xs[i+1]| + ... + |xs[n-1] - xs[n]| of a series of integers
AbsDiffSum(xs, i) ==
    IF i >= Len(xs) THEN 0
    ELSE IAbs(xs[i].n - xs[i + 1].n) + AbsDiffSum(xs, i + 1)

\* C12: jitter(xs) is the mean of |xs[i] - xs[i+1]| over the consecutive pairs,
\* and 0 for a series of fewer than two samples: jitter([1]) = 0,
\* jitter([5,5,5]) = 0, jitter([1,3]) = 2.
C12_JitterMean ==
    called.fn = "jitter" =>
        /\ Len(values) >= 2 => ret = Num(AbsDiffSum(values, 1), Len(values) - 1)
        /\ Len(values) < 2 => ret = NumInt(0)
        /\ values = IntsToNums(<<1>>) => ret = NumInt(0)
        /\ values = IntsToNums(<<1, 3>>) => ret = NumInt(2)

\* C13: on an empty series average, median and quartile fail with an error:
\* they return no NaN, no undefined and no other value.
C13_EmptySeriesFails ==
    (called.fn \in {"average", "median", "quartile"} /\ values = <<>>) =>
        ret.k \notin {"num", "nan", "inf", "undef"}

----------------------------------------------------------------------------
(* Properties of the drivers *)

\* the settled requests of driver k, in issuance order
HistOf(k) == SelectSeq(hist, LAMBDA e : e.drv = k)

\* the samples of the requests of driver k that resolved, in issuance order
Collected(k) ==
    LET good == SelectSeq(HistOf(k), LAMBDA e : e.outcome = "resolved")
    IN  [j \in 1..Len(good) |-> good[j].sample]

Failures(k) == Len(SelectSeq(HistOf(k), LAMBDA e : e.outcome = "rejected"))

\* C1: the jitter mean and the jitter quantile of measureLatency are those of
\* the samples in collection order: the mean / quantile of |x[i] - x[i+1]| over
\* the samples as they were appended.
C1_JitterInCollectionOrder ==
    (drv["latency"].st = "done" /\ Len(evaluated) >= 6) =>
        /\ evaluated[5] = jitter(Collected("latency"))
        /\ evaluated[6] \in jitterP95(Collected("latency"))

\* C3: with 100 requests, each with firstByte - start = 52 and server-timing 2,
\* every sample is 50 and measureLatency returns nine values with median 50,
\* jitter mean 0 and p99 50.
C3_ScenarioSummary ==
    drv["latency"].st = "done" =>
        /\ Len(hist) = LatencyRequests
        /\ \A j \in 1..Len(hist) : hist[j].sample = NumInt(50)
        /\ child.ping.st = "fulfilled"
        /\ Len(child.ping.val) = 9
        /\ child.ping.val[4] = NumInt(50)
        /\ child.ping.val[5] = NumInt(0)
        /\ child.ping.val[9] = NumInt(50)

C5_UnparsedHeaderRejects ==
    /\ proc # "crashed"
    /\ \A j \in 1..Len(hist) : hist[j].hdr = "malformed" => hist[j].outcome = "rejected"
    /\ \A k \in Drivers : ~HasNaN(drv[k].measurements)

----------------------------------------------------------------------------
(* Properties of speedTest() *)

\* a metadata fetch has failed: its request had an error, or its body was malformed
MetaFailed == \E m \in DOMAIN meta : meta[m] \in MetaEnded \ {"fulfilled"}

ReportPrinted == \E j \in 1..Len(out) : out[j].label \in ReportLabels

ThroughputStarted ==
    \/ drv["download"].st # "idle"
    \/ drv["upload"].st # "idle"
    \/ \E r \in reqs : r.drv \in {"download", "upload"}

AllSettled == \A c \in DOMAIN child : child[c].st \in {"fulfilled", "rejected"}

C8_OneRequestInFlight ==
    /\ Cardinality(reqs) <= 1
    /\ \A r \in reqs :
           /\ drv[r.drv].st = "await"
           /\ r.i = drv[r.drv].i
           /\ r.i = Len(HistOf(r.drv))
           /\ (\E m \in DOMAIN meta : meta[m] \in {"sent", "responded"})
                  => (r.drv = "latency" /\ drv["download"].st = "idle"
                      /\ drv["upload"].st = "idle")

\* the second latency request is in flight, the first has settled, and a
\* metadata fetch is still in flight
C8_Witness ==
    /\ \E r \in reqs : r.drv = "latency" /\ r.i >= 1 /\ Len(HistOf("latency")) >= 1
    /\ \E m \in DOMAIN meta : meta[m] \in {"sent", "responded"}

\* the line of the report with the given label shows the statistic x (two
\* decimals) and warns exactly if x is above the threshold
ShowsAbove(label, x, threshold) ==
    \A j \in 1..Len(out) :
        out[j].label = label =>
            /\ out[j].value = ToFixed2(x)
            /\ out[j].warn = JsLess(NumInt(threshold), x)

AllCompleted == reqs = {} /\ \A m \in DOMAIN meta : meta[m] = "fulfilled"

\* C15: when every request completes successfully the run prints the complete
\* report (server location, IP, latency, jitter, download speed, upload speed)
\* and ends, having issued 2 metadata requests, its latency requests
\* (RunLatencyCount here, 100 in the source), 2 download and 2 upload requests.
C15_RunCompletes ==
    /\ Len(HistOf("latency")) <= RunLatencyCount
    /\ Len(HistOf("download")) <= DownloadIterations
    /\ Len(HistOf("upload")) <= UploadIterations
    /\ AllCompleted =>
           /\ main = "done"
           /\ \A l \in ReportLabels : \E j \in 1..Len(out) : out[j].label = l
           /\ Len(HistOf("latency")) = RunLatencyCount
           /\ Len(HistOf("download")) = DownloadIterations
           /\ Len(HistOf("upload")) = UploadIterations

----------------------------------------------------------------------------
(* Properties of request(), under SpecRequest *)

\* C16: in every order of the events of a request the promise settles at most
\* once, resolves only after 'end', and every array it resolves with has
\* started, ttfb and ended defined, started <= ttfb <= ended; the timestamps
\* of lookup, connect and secureConnect may be missing.
C16_SettlesOnceAfterEnd ==
    /\ Len(hist) <= 1
    /\ \A r \in reqs :
           /\ (r.promise = "pending") = (hist = <<>>)
           /\ r.promise = "resolved" =>
                  /\ r.st = "ended"
                  /\ hist[1].outcome = "resolved"
                  /\ hist[1].record[1] = r.started
                  /\ hist[1].record[5] = r.ttfb
                  /\ hist[1].record[6] = r.ended
                  /\ \A j \in {1, 5, 6} : IsNum(hist[1].record[j])
                  /\ ~JsLess(hist[1].record[5], hist[1].record[1])
                  /\ ~JsLess(hist[1].record[6], hist[1].record[5])
                  /\ \A j \in {2, 3, 4} : hist[1].record[j].k \in {"num", "undef"}

\* resolved on a reused socket (no lookup, connect or secureConnect), after
\* 'data' events, and an 'error' event came after the 'end'
C16_Witness ==
    \E r \in reqs :
        /\ r.promise = "resolved"
        /\ r.error
        /\ r.socket = 0
        /\ r.chunks >= 1
        /\ hist[1].record[2] = Undefined
        /\ JsLess(hist[1].record[1], hist[1].record[5])

\* C19: the status code is not validated: whatever the status of a response
\* that ends with a server-timing header that parses, the promise resolves,
\* with the array of the event times and the header value, and the sample a
\* driver derives from it is that of the same events with status 200.
C19_StatusNotValidated ==
    \A r \in reqs :
        (r.st = "ended" /\ ~r.error /\ proc = "running") =>
            /\ r.promise = "resolved"
            /\ Len(hist) = 1
            /\ hist[1].outcome = EndOutcome([r EXCEPT !.statusCode = 200])
            /\ hist[1].record = <<r.started, r.dnsLookup, r.tcpHandshake, r.sslHandshake,
                                  r.ttfb, r.ended, hist[1].record[7]>>
            /\ hist[1].sample = SampleOf(r.drv, BytesOf(r.drv), hist[1].record)

\* a response with status 500 and a header that parses has given a sample
C19_Witness ==
    \E r \in reqs :
        /\ r.statusCode = 500
        /\ r.promise = "resolved"
        /\ IsNum(hist[1].record[7])
        /\ IsNum(hist[1].sample)

----------------------------------------------------------------------------
(* Properties of the concurrent section of speedTest(), under Spec *)

OtherFetch(m) == IF m = "loc" THEN "trace" ELSE "loc"

\* what the latency measurement writes, and what metadata fetch m writes
LatencyOutputs == <<drv["latency"], reqs, hist, evaluated, child.ping>>
FetchOutputs(m) == <<meta[m], child[m]>>

\* a step of the latency measurement leaves the outputs of both fetches as
\* they are, a step of a fetch those of the latency measurement and of the
\* other fetch
DisjointWrites ==
    /\ LatencyOutputs' # LatencyOutputs =>
           \A m \in {"loc", "trace"} : FetchOutputs(m)' = FetchOutputs(m)
    /\ \A m \in {"loc", "trace"} :
           FetchOutputs(m)' # FetchOutputs(m) =>
               /\ LatencyOutputs' = LatencyOutputs
               /\ FetchOutputs(OtherFetch(m))' = FetchOutputs(OtherFetch(m))

\* the series and the statistics evaluated from it are those of the settled
\* latency requests; a fulfilled metadata promise holds the mapping of one of
\* the bodies its own request can end with
OwnInputsOnly ==
    /\ drv["latency"].st = "await" => drv["latency"].measurements = Collected("latency")
    /\ drv["latency"].st = "done" =>
           /\ drv["latency"].measurements \in Perms(Collected("latency"))
           /\ evaluated[1] = MathMin(Collected("latency"))
           /\ evaluated[2] = MathMax(Collected("latency"))
           /\ evaluated[3] = average(Collected("latency"))
    /\ \A m \in {"loc", "trace"} :
           child[m].st = "fulfilled" =>
               \E body \in MetaBodies(m) : child[m] = MetaSettled(m, body)

\* C17: in the concurrent section the latency measurement and the two
\* metadata fetches write disjoint outputs: in every interleaving of their
\* callbacks the latency series and its summary depend only on the outcomes of
\* the latency requests, and each metadata mapping only on its own response.
C17_DisjointOutputs == []OwnInputsOnly /\ [][DisjointWrites]_vars

\* both mappings are there and the latency loop has collected two samples
C17_Witness ==
    /\ child.loc.st = "fulfilled"
    /\ child.trace.st = "fulfilled"
    /\ drv["latency"].st = "done"
    /\ Len(Collected("latency")) >= 2

----------------------------------------------------------------------------
(* Properties of a run with a hung request, under SpecHang *)

Printed(label) == \E j \in 1..Len(out) : out[j].label = label

\* a hung request stays in flight as it is
HungStays ==
    /\ \A r \in reqs : r.st = "hung" => r \in reqs'
    /\ \A m \in DOMAIN meta : meta[m] = "hung" => meta'[m] = "hung"

\* what a hung request holds up
HungStalls ==
    /\ \A r \in reqs :
           r.st = "hung" =>
               /\ main # "done"
               /\ drv[r.drv].st = "await"
               /\ drv[r.drv].i = r.i
               /\ Len(HistOf(r.drv)) = r.i
               /\ ~\E r2 \in reqs : r2.drv = r.drv /\ r2.i > r.i
               /\ r.drv = "latency" =>
                      ~ReportPrinted /\ ~ThroughputStarted /\ child.ping.st = "pending"
               /\ r.drv = "download" =>
                      /\ ~Printed("Download speed") /\ ~Printed("Upload speed")
                      /\ drv["upload"].st = "idle"
               /\ r.drv = "upload" => ~Printed("Upload speed")
    /\ \A m \in DOMAIN meta :
           meta[m] = "hung" =>
               /\ main \in {"join", "rejected"}
               /\ child[m].st = "pending"
               /\ ~ReportPrinted /\ ~ThroughputStarted

====
